---------------------------- MODULE Spec2Model ----------------------------
(***************************************************************************)
(* QA assignment tool (src/app.py): the allocation engine that hands the   *)
(* rows of the QA sheet to the active members, in its three distribution   *)
(* modes, with the target calculator and the post-rebalancer.              *)
(*                                                                         *)
(* Numbers: the code computes round(total * (limit / capacity)),           *)
(* floor(rem / total * size), target * (1 + tolerance) and ratio * second  *)
(* in binary floating point.  For capacities below 22 and sizes below 40   *)
(* these agree with the exact rational values, which is what the           *)
(* operators below compute; IMBALANCE_RATIO and TARGET_TOLERANCE are kept  *)
(* in hundredths (1.30 is 130, 0.1 is 10).                                 *)
(***************************************************************************)
EXTENDS Integers, Sequences, FiniteSets, TLC

\* ------------------------------------------------------------------ bounds
\* Largest limit a member is given in the allocation runs.
MaxLimit == 5
\* Largest number of rows of the first brand (the second has at most as many).
MaxBlock == 5
\* Largest number of rows that carry a Pim Parent ID but no brand.
MaxNoBrand == 1
\* Largest limit and largest item count handed to calculate_targets alone.
TMaxLimit == 4
TMaxTotal == 9
\* The block-queue loops stop at max_iterations = 20000 (src/app.py:365, 478).
\* With at most two brands a run that empties the queue pops twice, so any cap
\* above 2 stops exactly the runs that 20000 stops: those that keep pushing
\* the same remainder back.
max_iterations == 4
\* Largest limit and largest number of rows handed to rebalance_assignments alone.
RMaxLimit == 3
RMaxRows == 4
\* Largest limit in the Brand Priority runs over a roster of three.
WMaxLimit == 6

\* ------------------------------------------------------- program constants
\* rebalance_assignments(..., max_iterations=1000)
rebalance_max_iterations == 1000
\* st.slider("Min Brand Size to Split", 5, 100, 50, 5): the smallest setting.
MinSplitSize == 5

\* ------------------------------------------------------------------ names
Strict == "Strict Even Split"
BrandPriority == "Balanced (Brand Priority)"
EvenPriority == "Balanced (Even Priority)"
Modes == {Strict, BrandPriority, EvenPriority}
Backlog == "Backlog"
\* The Assigned cell of a row the engine has not written.
Unassigned == ""
\* brand_to_member.get(brand) of a brand with no row in the Assignments sheet.
NoMember == "None"
\* The Brand cell of a row without a brand.
NoBrand == "NoBrand"
BrandX == "X"
BrandY == "Y"
Brands == {BrandX, BrandY}

VARIABLES
    mode,                 \* distribution_mode
    active_members,       \* roster, in input order
    member_limits,        \* member -> limit
    brand_to_member,      \* brand -> pre-assigned member, or NoMember
    qa_rows,              \* Brand cell of each row with a Pim Parent ID; row i+1 is qa_rows[i]
    SPLIT_SIZE_THRESHOLD,
    IMBALANCE_RATIO,      \* in hundredths
    TARGET_TOLERANCE,     \* in hundredths
    REBALANCE_ENABLED,
    total_products,
    targets,
    counts,
    assignments,          \* member -> rows, in order of assignment
    assigned_blocks,      \* records of whole placements
    backlog_rows,
    assigned_col,         \* row -> value of the Assigned cell
    blocks_queue,
    iteration,
    all_rows,             \* Strict Even Split: rows not yet handed out
    member_cycle,         \* Strict Even Split: position of cycle(active_members)
    quotas,               \* split placement: quotas / shares
    member_queue,         \* split placement: deque of members with quota left
    rows,                 \* split placement: rows of the block not yet handed out
    iterations,           \* rebalance_assignments: loop counter
    moves_made,
    pc

inputs == <<mode, active_members, member_limits, brand_to_member, qa_rows,
            SPLIT_SIZE_THRESHOLD, IMBALANCE_RATIO, TARGET_TOLERANCE, REBALANCE_ENABLED>>
book == <<counts, assignments, assigned_blocks, backlog_rows, assigned_col>>
strictv == <<all_rows, member_cycle>>
queuev == <<blocks_queue, iteration>>
splitv == <<quotas, member_queue, rows>>
rebv == <<iterations, moves_made>>
vars == <<inputs, total_products, targets, book, strictv, queuev, splitv, rebv, pc>>

\* ---------------------------------------------------------------- helpers
Range(s) == {s[i] : i \in 1..Len(s)}
Min(a, b) == IF a <= b THEN a ELSE b
Max(a, b) == IF a >= b THEN a ELSE b

RECURSIVE SumSeq(_)
SumSeq(s) == IF s = << >> THEN 0 ELSE Head(s) + SumSeq(Tail(s))

\* sum(f[m] for m in ms)
SumOver(ms, f) == SumSeq([i \in 1..Len(ms) |-> f[ms[i]]])

\* A sort that is not stable: elements with equal keys come out reversed.
SortedDescUnstable(s, key) ==
    LET n == Len(s)
        rank(i) == Cardinality({j \in 1..n :
                       key[s[j]] > key[s[i]] \/ (key[s[j]] = key[s[i]] /\ j > i)})
    IN [k \in 1..n |-> s[CHOOSE i \in 1..n : rank(i) = k - 1]]

\* sorted(s, key=lambda x: -key[x]), and sorted(s, key=..., reverse=True): the
\* larger key first, and elements with equal keys in the order they had (the
\* sort is stable, with reverse=True too).
SortedDesc(s, key) ==
    LET n == Len(s)
        rank(i) == Cardinality({j \in 1..n :
                       key[s[j]] > key[s[i]] \/ (key[s[j]] = key[s[i]] /\ j < i)})
    IN [k \in 1..n |-> s[CHOOSE i \in 1..n : rank(i) = k - 1]]

\* int() in place of round(): the share is cut, not rounded.
RoundDown(num, den) == num \div den

\* round(num / den) for num >= 0, den > 0: Python 3 rounds halves to even.
RoundHalfEven(num, den) ==
    LET q == num \div den
        r == num % den
    IN IF 2 * r > den THEN q + 1
       ELSE IF 2 * r < den THEN q
       ELSE IF q % 2 = 0 THEN q ELSE q + 1

remaining_capacity(member, limits, cnts) == Max(0, limits[member] - cnts[member])

distance_from_target(member, cnts, tgts) == tgts[member] - cnts[member]

\* sorted(new_counts.values(), reverse=True)
compute_loads_after_assignment(cnts, ms, member_to_add, add) ==
    LET new_counts == [cnts EXCEPT ![member_to_add] = @ + add]
        vals == [i \in 1..Len(ms) |-> new_counts[ms[i]]]
    IN SortedDesc(vals, [v \in Range(vals) |-> v])

top_and_second(loads) ==
    IF Len(loads) = 0 THEN <<0, 0>>
    ELSE IF Len(loads) = 1 THEN <<loads[1], 0>>
    ELSE <<loads[1], loads[2]>>

\* ------------------------------------------------------ calculate_targets
\* The remainder loop: while diff > 0 and i < len(members_by_slack) * 2.
RECURSIVE TargetsRemainder(_, _, _, _, _)
TargetsRemainder(t, diff, i, order, limits) ==
    IF diff > 0 /\ i < Len(order) * 2
    THEN LET m == order[(i % Len(order)) + 1]
         IN IF t[m] < limits[m]
            THEN TargetsRemainder([t EXCEPT ![m] = @ + 1], diff - 1, i + 1, order, limits)
            ELSE TargetsRemainder(t, diff, i + 1, order, limits)
    ELSE t

\* targets[m] = ideal, without the min(ideal, limit).
UncappedTargets(members, limits, total) ==
    [m \in Range(members) |->
        RoundHalfEven(total * limits[m], SumOver(members, limits))]

\* ideal = round(total_products * proportion); targets[m] = min(ideal, limit)
ProportionalTargets(members, limits, total) ==
    LET total_capacity == SumOver(members, limits)
    IN [m \in Range(members) |->
           Min(RoundHalfEven(total * limits[m], total_capacity), limits[m])]

\* sorted(active_members, key=limit - target, reverse=True)
members_by_slack(members, limits, t) ==
    SortedDesc(members, [m \in Range(members) |-> limits[m] - t[m]])

calculate_targets(members, limits, total) ==
    LET total_capacity == SumOver(members, limits)
    IN IF total_capacity = 0
       THEN [m \in Range(members) |-> 0]
       ELSE LET t0 == ProportionalTargets(members, limits, total)
                diff == total - SumOver(members, t0)
            IN TargetsRemainder(t0, diff, 0, members_by_slack(members, limits, t0), limits)

\* ------------------------------------------------------------ block builder
\* The QA sheet: the rows of the two brands and the brandless rows, interleaved.
RECURSIVE Weave(_, _, _)
Weave(nx, ny, nn) ==
    IF nx = 0 /\ ny = 0 /\ nn = 0 THEN << >>
    ELSE (IF nx > 0 THEN <<BrandX>> ELSE << >>)
         \o (IF ny > 0 THEN <<BrandY>> ELSE << >>)
         \o (IF nn > 0 THEN <<NoBrand>> ELSE << >>)
         \o Weave(Max(0, nx - 1), Max(0, ny - 1), Max(0, nn - 1))

\* The sheets of the runs: two brands of up to MaxBlock rows (the second no
\* larger than the first), or one brand and up to MaxNoBrand brandless rows.
Sheets ==
    {Weave(p[1], p[2], 0) : p \in {q \in (0..MaxBlock) \X (0..MaxBlock) : q[2] <= q[1]}}
    \cup {Weave(nx, 0, nn) : nx \in 0..MaxBlock, nn \in 1..MaxNoBrand}

\* Row numbers start at 2 (row 1 is the header).
RowNumbers(q) == {i + 1 : i \in 1..Len(q)}
RowSeq(q) == [i \in 1..Len(q) |-> i + 1]

\* brand_blocks[b]: the rows of brand b, in sheet order (backlog_mode, which
\* sorts each brand's rows by date, is off, its default)
brand_blocks(q, b) == SelectSeq(RowSeq(q), LAMBDA r : q[r - 1] = b)

\* row_brand_order: the brands in order of first appearance
RECURSIVE row_brand_order(_)
row_brand_order(q) ==
    IF q = << >> THEN << >>
    ELSE LET before == row_brand_order(SubSeq(q, 1, Len(q) - 1))
             b == q[Len(q)]
         IN IF b = NoBrand \/ b \in Range(before) THEN before ELSE Append(before, b)

\* blocks.sort(key=lambda x: len(x[1]), reverse=True)
BuildBlocks(q) ==
    LET order == row_brand_order(q)
        unsorted == [i \in 1..Len(order) |->
                        [brand |-> order[i], rows |-> brand_blocks(q, order[i])]]
    IN SortedDesc(unsorted, [b \in Range(unsorted) |-> Len(b.rows)])

RECURSIVE Flatten(_)
Flatten(bs) == IF bs = << >> THEN << >> ELSE Head(bs).rows \o Flatten(Tail(bs))

\* ------------------------------------------------------------------- Init
InitRun ==
    /\ mode \in Modes
    /\ active_members = <<"A", "B">>
    /\ member_limits \in [Range(active_members) -> 0..MaxLimit]
    /\ brand_to_member \in [Brands -> Range(active_members) \cup {NoMember}]
    /\ qa_rows \in Sheets
    /\ SPLIT_SIZE_THRESHOLD = MinSplitSize
    /\ IMBALANCE_RATIO = 130
    /\ IF mode = EvenPriority
       THEN TARGET_TOLERANCE \in {10, 30} /\ REBALANCE_ENABLED \in BOOLEAN
       ELSE TARGET_TOLERANCE = 10 /\ REBALANCE_ENABLED = TRUE

InitEngine ==
    /\ total_products = 0
    /\ targets = [m \in Range(active_members) |-> 0]
    /\ counts = [m \in Range(active_members) |-> 0]
    /\ assignments = [m \in Range(active_members) |-> << >>]
    /\ assigned_blocks = << >>
    /\ backlog_rows = << >>
    /\ assigned_col = [r \in RowNumbers(qa_rows) |-> Unassigned]
    /\ blocks_queue = << >>
    /\ iteration = 0
    /\ all_rows = << >>
    /\ member_cycle = 1
    /\ quotas = [m \in Range(active_members) |-> 0]
    /\ member_queue = << >>
    /\ rows = << >>
    /\ iterations = 0
    /\ moves_made = 0

Init == InitRun /\ InitEngine /\ pc = "prepare"

\* --------------------------------------------------------------- Prepare
\* Blocks, total_products, targets, and the zeroed counters (lines 271-325).
Prepare ==
    /\ pc = "prepare"
    /\ LET blocks == BuildBlocks(qa_rows)
           total == SumSeq([i \in 1..Len(blocks) |-> Len(blocks[i].rows)])
       IN /\ total_products' = total
          /\ targets' = calculate_targets(active_members, member_limits, total)
          /\ IF mode = Strict
             THEN all_rows' = Flatten(blocks) /\ blocks_queue' = << >>
             ELSE all_rows' = << >> /\ blocks_queue' = blocks
    /\ pc' = IF mode = Strict THEN "strict"
             ELSE IF mode = BrandPriority THEN "brand" ELSE "even"
    /\ UNCHANGED <<inputs, book, member_cycle, iteration, splitv, rebv>>

\* ------------------------------------------------------ Strict Even Split
\* The member the inner while loop stops at: the k-th next(member_cycle),
\* k < len(active_members), is the first with remaining capacity.
CycleMember(k) == active_members[((member_cycle - 1 + k) % Len(active_members)) + 1]
CycleHits == {k \in 0..(Len(active_members) - 1) :
                 remaining_capacity(CycleMember(k), member_limits, counts) > 0}
FirstHit == CHOOSE k \in CycleHits : \A j \in CycleHits : k <= j

StrictAssign ==
    /\ pc = "strict"
    /\ all_rows # << >>
    /\ CycleHits # {}
    /\ LET row == Head(all_rows)
           member == CycleMember(FirstHit)
       IN /\ assigned_col' = [assigned_col EXCEPT ![row] = member]
          /\ assignments' = [assignments EXCEPT ![member] = Append(@, row)]
          /\ counts' = [counts EXCEPT ![member] = @ + 1]
          /\ member_cycle' = ((member_cycle - 1 + FirstHit + 1) % Len(active_members)) + 1
    /\ all_rows' = Tail(all_rows)
    /\ UNCHANGED <<inputs, total_products, targets, assigned_blocks, backlog_rows,
                   queuev, splitv, rebv, pc>>

StrictBacklog ==
    /\ pc = "strict"
    /\ all_rows # << >>
    /\ CycleHits = {}
    /\ LET row == Head(all_rows)
       IN /\ assigned_col' = [assigned_col EXCEPT ![row] = Backlog]
          /\ backlog_rows' = Append(backlog_rows, row)
    /\ all_rows' = Tail(all_rows)
    /\ UNCHANGED <<inputs, total_products, targets, counts, assignments, assigned_blocks,
                   member_cycle, queuev, splitv, rebv, pc>>

StrictDone ==
    /\ pc = "strict"
    /\ all_rows = << >>
    /\ pc' = "done"
    /\ UNCHANGED <<inputs, total_products, targets, book, strictv, queuev, splitv, rebv>>

\* ------------------------------------------- the block queue (both Balanced)
InQueueLoop == pc \in {"brand", "even"} /\ blocks_queue # << >> /\ iteration < max_iterations
current_brand == Head(blocks_queue).brand
current_rows == Head(blocks_queue).rows
block_size == Len(current_rows)
pre_member == brand_to_member[current_brand]
\* pre_member and pre_member in active_members
HasActivePre == pre_member # NoMember /\ pre_member \in Range(active_members)
Rem(m) == remaining_capacity(m, member_limits, counts)

\* qa_ws[...].value = who, for every row of rs
\* The loop over the rows stops one row early: the last row's cell is not written.
WriteCellsButLast(rs, who) == [r \in DOMAIN assigned_col |->
                                  IF r \in Range(SubSeq(rs, 1, Len(rs) - 1))
                                  THEN who ELSE assigned_col[r]]
WriteCells(rs, who) == [r \in DOMAIN assigned_col |->
                           IF r \in Range(rs) THEN who ELSE assigned_col[r]]

\* A whole placement of rs on member m: cells, assignments, counts, assigned_blocks.
PlaceWhole(m, rs) ==
    /\ assigned_col' = WriteCells(rs, m)
    /\ assignments' = [assignments EXCEPT ![m] = @ \o rs]
    /\ counts' = [counts EXCEPT ![m] = @ + Len(rs)]
    /\ assigned_blocks' = Append(assigned_blocks,
                                 [brand |-> current_brand, rows |-> rs, member |-> m])
    /\ UNCHANGED backlog_rows

\* for r in rs: cell = "Backlog"; backlog_rows.append(r)
BacklogAll(rs) ==
    /\ assigned_col' = WriteCells(rs, Backlog)
    /\ backlog_rows' = backlog_rows \o rs
    /\ UNCHANGED <<counts, assignments, assigned_blocks>>

\* Pre-assignment, cap >= block_size (lines 376-384 and 489-497).
PreAssignWhole ==
    /\ InQueueLoop
    /\ HasActivePre
    /\ Rem(pre_member) >= block_size
    /\ PlaceWhole(pre_member, current_rows)
    /\ blocks_queue' = Tail(blocks_queue)
    /\ iteration' = iteration + 1
    /\ UNCHANGED <<inputs, total_products, targets, strictv, splitv, rebv, pc>>

\* The overflow of a pre-assigned block is sent to Backlog, not back to the queue.
PreAssignOverflowToBacklog ==
    /\ InQueueLoop
    /\ HasActivePre
    /\ Rem(pre_member) < block_size
    /\ LET take == Min(Rem(pre_member), block_size)
           taken == SubSeq(current_rows, 1, take)
           remaining == SubSeq(current_rows, take + 1, block_size)
       IN /\ assigned_col' = [r \in DOMAIN assigned_col |->
                                 IF r \in Range(taken) THEN pre_member
                                 ELSE IF r \in Range(remaining) THEN Backlog
                                 ELSE assigned_col[r]]
          /\ assignments' = [assignments EXCEPT ![pre_member] = @ \o taken]
          /\ counts' = [counts EXCEPT ![pre_member] = @ + take]
          /\ backlog_rows' = backlog_rows \o remaining
          /\ assigned_blocks' = IF take > 0
                                THEN Append(assigned_blocks,
                                            [brand |-> current_brand, rows |-> taken,
                                             member |-> pre_member])
                                ELSE assigned_blocks
    /\ blocks_queue' = Tail(blocks_queue)
    /\ iteration' = iteration + 1
    /\ UNCHANGED <<inputs, total_products, targets, strictv, splitv, rebv, pc>>

\* Pre-assignment, cap < block_size (lines 385-396 and 498-509): the member takes
\* the first cap rows and the rest goes back to the front of the queue.
PreAssignOverflow ==
    /\ InQueueLoop
    /\ HasActivePre
    /\ Rem(pre_member) < block_size
    /\ LET take == Min(Rem(pre_member), block_size)
           remaining == SubSeq(current_rows, take + 1, block_size)
       IN /\ IF take > 0
             THEN PlaceWhole(pre_member, SubSeq(current_rows, 1, take))
             ELSE UNCHANGED book
          /\ blocks_queue' = IF remaining # << >>
                             THEN <<[brand |-> current_brand, rows |-> remaining]>>
                                  \o Tail(blocks_queue)
                             ELSE Tail(blocks_queue)
    /\ iteration' = iteration + 1
    /\ UNCHANGED <<inputs, total_products, targets, strictv, splitv, rebv, pc>>

\* ----------------------------------------------- Balanced (Brand Priority)
\* [m for m in active_members if remaining_capacity(m) >= block_size]
candidates_can_take == SelectSeq(active_members, LAMBDA m : Rem(m) >= block_size)

\* candidates_can_take.sort(key=lambda m: (-remaining_capacity(m), counts[m])):
\* the most remaining capacity first, then the fewest rows, then roster order
\* (a stable sort by the second key, then one by the first).
SmallBlockBest ==
    LET by_count == SortedDesc(candidates_can_take,
                               [m \in Range(active_members) |-> -counts[m]])
    IN SortedDesc(by_count, [m \in Range(active_members) |-> Rem(m)])[1]

BrandSmallPlace ==
    /\ InQueueLoop /\ pc = "brand"
    /\ ~HasActivePre
    /\ block_size < SPLIT_SIZE_THRESHOLD
    /\ candidates_can_take # << >>
    /\ PlaceWhole(SmallBlockBest, current_rows)
    /\ blocks_queue' = Tail(blocks_queue)
    /\ iteration' = iteration + 1
    /\ UNCHANGED <<inputs, total_products, targets, strictv, splitv, rebv, pc>>

BrandSmallBacklog ==
    /\ InQueueLoop /\ pc = "brand"
    /\ ~HasActivePre
    /\ block_size < SPLIT_SIZE_THRESHOLD
    /\ candidates_can_take = << >>
    /\ BacklogAll(current_rows)
    /\ blocks_queue' = Tail(blocks_queue)
    /\ iteration' = iteration + 1
    /\ UNCHANGED <<inputs, total_products, targets, strictv, splitv, rebv, pc>>

\* best_candidate = candidates_can_take[0] if candidates_can_take else None
HasBestCandidate == candidates_can_take # << >>
best_candidate == candidates_can_take[1]

\* The check left out: would_imbalance stays False.
never_imbalance == FALSE

would_imbalance ==
    /\ HasBestCandidate
    /\ LET ts == top_and_second(compute_loads_after_assignment(
                     counts, active_members, best_candidate, block_size))
           top == ts[1]
           second == ts[2]
       IN IF second = 0
          THEN top > 0 /\ second = 0
          ELSE top * 100 > IMBALANCE_RATIO * second

BrandWholePlace ==
    /\ InQueueLoop /\ pc = "brand"
    /\ ~HasActivePre
    /\ block_size >= SPLIT_SIZE_THRESHOLD
    /\ HasBestCandidate /\ ~would_imbalance
    /\ PlaceWhole(best_candidate, current_rows)
    /\ blocks_queue' = Tail(blocks_queue)
    /\ iteration' = iteration + 1
    /\ UNCHANGED <<inputs, total_products, targets, strictv, splitv, rebv, pc>>

\* eligible = [m for m in active_members if remaining_capacity(m) > 0]
\* remaining_capacity(m) > 1 in place of > 0: a member with room for exactly one
\* more row is passed over.
eligible_with_spare == SelectSeq(active_members, LAMBDA m : Rem(m) > 1)
eligible == SelectSeq(active_members, LAMBDA m : Rem(m) > 0)

\* while remaining_to_assign > 0 and members_by_cap: ... if idx > block_size * 5: break
RECURSIVE BrandRemainder(_, _, _, _, _)
BrandRemainder(tentative, remaining_to_assign, idx, members_by_cap, size) ==
    IF remaining_to_assign > 0 /\ members_by_cap # << >>
    THEN LET m == members_by_cap[(idx % Len(members_by_cap)) + 1]
             give == tentative[m] < Rem(m)
             t2 == IF give THEN [tentative EXCEPT ![m] = @ + 1] ELSE tentative
             r2 == IF give THEN remaining_to_assign - 1 ELSE remaining_to_assign
         IN IF idx + 1 > size * 5
            THEN t2
            ELSE BrandRemainder(t2, r2, idx + 1, members_by_cap, size)
    ELSE tentative

\* tentative = floor(rem_caps[m] / total * block_size), then the remainder loop
BrandQuotas ==
    LET total == SumOver(eligible, [m \in Range(active_members) |-> Rem(m)])
        tentative == [m \in Range(active_members) |->
                         IF Rem(m) > 0 THEN (Rem(m) * block_size) \div total ELSE 0]
        remaining_to_assign == block_size - SumOver(eligible, tentative)
        members_by_cap == SortedDesc(eligible, [m \in Range(active_members) |-> Rem(m)])
    IN BrandRemainder(tentative, remaining_to_assign, 0, members_by_cap, block_size)

NeedsBrandSplit ==
    /\ InQueueLoop /\ pc = "brand"
    /\ ~HasActivePre
    /\ block_size >= SPLIT_SIZE_THRESHOLD
    /\ (~HasBestCandidate \/ would_imbalance)

\* total == 0: nobody has capacity left (lines 429-433)
BrandSplitBacklog ==
    /\ NeedsBrandSplit
    /\ eligible = << >>
    /\ BacklogAll(current_rows)
    /\ blocks_queue' = Tail(blocks_queue)
    /\ iteration' = iteration + 1
    /\ UNCHANGED <<inputs, total_products, targets, strictv, splitv, rebv, pc>>

\* Quotas and the member deque of a split (lines 435-450)
BrandSplitStart ==
    /\ NeedsBrandSplit
    /\ eligible # << >>
    /\ quotas' = BrandQuotas
    /\ member_queue' = SelectSeq(eligible, LAMBDA m : BrandQuotas[m] > 0)
    /\ rows' = current_rows
    /\ blocks_queue' = Tail(blocks_queue)
    /\ iteration' = iteration + 1
    /\ pc' = "split"
    /\ UNCHANGED <<inputs, total_products, targets, book, strictv, rebv>>

\* ------------------------------------------------ interleaved assignment
\* A member keeps its turn until its quota is spent: one contiguous chunk each.
SplitAssignInChunks ==
    /\ pc = "split"
    /\ member_queue # << >> /\ rows # << >>
    /\ LET m == Head(member_queue)
           r == Head(rows)
       IN /\ assigned_col' = [assigned_col EXCEPT ![r] = m]
          /\ assignments' = [assignments EXCEPT ![m] = Append(@, r)]
          /\ counts' = [counts EXCEPT ![m] = @ + 1]
          /\ quotas' = [quotas EXCEPT ![m] = @ - 1]
          /\ member_queue' = IF quotas[m] - 1 > 0
                             THEN member_queue
                             ELSE Tail(member_queue)
    /\ rows' = Tail(rows)
    /\ UNCHANGED <<inputs, total_products, targets, assigned_blocks, backlog_rows,
                   strictv, queuev, rebv, pc>>

\* One turn of `while member_queue and rows` (lines 451-461 and 582-592).  A
\* member is queued only while its quota is positive, so the `continue` on
\* quotas[m] <= 0 is never taken.
SplitAssign ==
    /\ pc = "split"
    /\ member_queue # << >> /\ rows # << >>
    /\ LET m == Head(member_queue)
           r == Head(rows)
       IN /\ assigned_col' = [assigned_col EXCEPT ![r] = m]
          /\ assignments' = [assignments EXCEPT ![m] = Append(@, r)]
          /\ counts' = [counts EXCEPT ![m] = @ + 1]
          /\ quotas' = [quotas EXCEPT ![m] = @ - 1]
          /\ member_queue' = IF quotas[m] - 1 > 0
                             THEN Append(Tail(member_queue), m)
                             ELSE Tail(member_queue)
    /\ rows' = Tail(rows)
    /\ UNCHANGED <<inputs, total_products, targets, assigned_blocks, backlog_rows,
                   strictv, queuev, rebv, pc>>

\* The rows left when the deque runs dry go to Backlog (lines 462-464, 595-597).
SplitFinish ==
    /\ pc = "split"
    /\ (member_queue = << >> \/ rows = << >>)
    /\ BacklogAll(rows)
    /\ rows' = << >>
    /\ pc' = IF mode = BrandPriority THEN "brand" ELSE "even"
    /\ UNCHANGED <<inputs, total_products, targets, strictv, queuev, quotas,
                   member_queue, rebv>>

\* while blocks_queue and iteration < max_iterations: the loop ends
BrandLoopExit ==
    /\ pc = "brand"
    /\ (blocks_queue = << >> \/ iteration >= max_iterations)
    /\ pc' = "done"
    /\ UNCHANGED <<inputs, total_products, targets, book, strictv, queuev, splitv, rebv>>

\* ------------------------------------------------ Balanced (Even Priority)
Dist(m) == distance_from_target(m, counts, targets)

\* eligible.sort(key=lambda m: -distance_from_target(m, counts, targets))
eligible_by_room == SortedDesc(eligible, [m \in Range(active_members) |-> Dist(m)])
best_member == eligible_by_room[1]

\* projected_count <= tolerance_threshold and cap >= block_size
FitsWhole ==
    /\ (counts[best_member] + block_size) * 100
           <= targets[best_member] * (100 + TARGET_TOLERANCE)
    /\ Rem(best_member) >= block_size

\* No member has capacity left (lines 514-518)
EvenNoEligible ==
    /\ InQueueLoop /\ pc = "even"
    /\ ~HasActivePre
    /\ eligible = << >>
    /\ BacklogAll(current_rows)
    /\ blocks_queue' = Tail(blocks_queue)
    /\ iteration' = iteration + 1
    /\ UNCHANGED <<inputs, total_products, targets, strictv, splitv, rebv, pc>>

EvenWholePlace ==
    /\ InQueueLoop /\ pc = "even"
    /\ ~HasActivePre
    /\ eligible # << >>
    /\ FitsWhole
    /\ PlaceWhole(best_member, current_rows)
    /\ blocks_queue' = Tail(blocks_queue)
    /\ iteration' = iteration + 1
    /\ UNCHANGED <<inputs, total_products, targets, strictv, splitv, rebv, pc>>

\* distances = max(0, distance_from_target); when they sum to 0 the remaining
\* capacities take their place (lines 540-553).  A member of eligible has
\* capacity left, so total_cap == 0 (lines 547-551) is never met.
TargetDistances == [m \in Range(active_members) |-> IF Rem(m) > 0 THEN Max(0, Dist(m)) ELSE 0]
distances ==
    IF SumOver(eligible, TargetDistances) = 0
    THEN [m \in Range(active_members) |-> Rem(m)]
    ELSE TargetDistances
total_distance == SumOver(eligible, distances)

\* The remainder loop left out: the floored shares are used as they are.
EvenRemainderSkipped(shares, remainder, idx, members_by_distance) == shares

\* while remainder > 0 and idx < len(members_by_distance) * 3
RECURSIVE EvenRemainder(_, _, _, _)
EvenRemainder(shares, remainder, idx, members_by_distance) ==
    IF remainder > 0 /\ idx < Len(members_by_distance) * 3
    THEN LET m == members_by_distance[(idx % Len(members_by_distance)) + 1]
         IN IF shares[m] < Rem(m)
            THEN EvenRemainder([shares EXCEPT ![m] = @ + 1], remainder - 1, idx + 1,
                               members_by_distance)
            ELSE EvenRemainder(shares, remainder, idx + 1, members_by_distance)
    ELSE shares

\* shares[m] = min(floor(block_size * proportion), remaining_capacity(m))
EvenShares ==
    LET shares == [m \in Range(active_members) |->
                      IF Rem(m) > 0
                      THEN Min((block_size * distances[m]) \div total_distance, Rem(m))
                      ELSE 0]
        remainder == block_size - SumOver(eligible, shares)
        members_by_distance == SortedDesc(eligible_by_room, distances)
    IN EvenRemainder(shares, remainder, 0, members_by_distance)

\* Shares and the member deque of a split (lines 538-580)
EvenSplitStart ==
    /\ InQueueLoop /\ pc = "even"
    /\ ~HasActivePre
    /\ eligible # << >>
    /\ ~FitsWhole
    /\ quotas' = EvenShares
    /\ member_queue' = SelectSeq(eligible_by_room, LAMBDA m : EvenShares[m] > 0)
    /\ rows' = current_rows
    /\ blocks_queue' = Tail(blocks_queue)
    /\ iteration' = iteration + 1
    /\ pc' = "split"
    /\ UNCHANGED <<inputs, total_products, targets, book, strictv, rebv>>

EvenLoopExit ==
    /\ pc = "even"
    /\ (blocks_queue = << >> \/ iteration >= max_iterations)
    /\ pc' = IF REBALANCE_ENABLED THEN "rebalance" ELSE "done"
    /\ UNCHANGED <<inputs, total_products, targets, book, strictv, queuev, splitv, rebv>>

\* -------------------------------------------------- rebalance_assignments
\* counts[m] >= targets[m] in place of counts[m] > targets[m]: a member exactly on
\* its target may give a row away.
over_or_at_target == SelectSeq(active_members, LAMBDA m : counts[m] >= targets[m])
over_target == SelectSeq(active_members, LAMBDA m : counts[m] > targets[m])
under_target == SelectSeq(active_members, LAMBDA m : counts[m] < targets[m])
\* over_target.sort(key=lambda x: -x[1]); from_member = over_target[0][0]
from_member ==
    SortedDesc(over_target, [m \in Range(active_members) |-> counts[m] - targets[m]])[1]
\* The receiver is the member with the fewest rows, whatever its target is.
to_least_loaded ==
    SortedDesc(active_members, [m \in Range(active_members) |-> -counts[m]])[1]
\* under_target.sort(key=lambda x: -x[1]); to_member = under_target[0][0]
to_member ==
    SortedDesc(under_target, [m \in Range(active_members) |-> targets[m] - counts[m]])[1]

\* current_diff <= 2 in place of current_diff <= 1: the loop gives up one move early.
CanMoveEarlyStop ==
    /\ iterations < rebalance_max_iterations
    /\ over_target # << >> /\ under_target # << >>
    /\ counts[from_member] - counts[to_member] > 2
    /\ assignments[from_member] # << >>

CanMove ==
    /\ iterations < rebalance_max_iterations
    /\ over_target # << >> /\ under_target # << >>
    /\ counts[from_member] - counts[to_member] > 1
    /\ assignments[from_member] # << >>

\* The row is appended to to_member without being popped from from_member.
RebalanceMoveCopies ==
    /\ pc = "rebalance"
    /\ CanMove
    /\ LET f == from_member
           t == to_member
           row_to_move == assignments[f][Len(assignments[f])]
       IN /\ assignments' = [assignments EXCEPT ![t] = Append(@, row_to_move)]
          /\ counts' = [counts EXCEPT ![f] = @ - 1, ![t] = @ + 1]
          /\ assigned_col' = [assigned_col EXCEPT ![row_to_move] = t]
    /\ iterations' = iterations + 1
    /\ moves_made' = moves_made + 1
    /\ UNCHANGED <<inputs, total_products, targets, assigned_blocks, backlog_rows,
                   strictv, queuev, splitv, pc>>

\* Move one product: the last row of from_member goes to to_member.
RebalanceMove ==
    /\ pc = "rebalance"
    /\ CanMove
    /\ LET f == from_member
           t == to_member
           row_to_move == assignments[f][Len(assignments[f])]
       IN /\ assignments' = [assignments EXCEPT
                                ![f] = SubSeq(@, 1, Len(@) - 1),
                                ![t] = Append(@, row_to_move)]
          /\ counts' = [counts EXCEPT ![f] = @ - 1, ![t] = @ + 1]
          /\ assigned_col' = [assigned_col EXCEPT ![row_to_move] = t]
    /\ iterations' = iterations + 1
    /\ moves_made' = moves_made + 1
    /\ UNCHANGED <<inputs, total_products, targets, assigned_blocks, backlog_rows,
                   strictv, queuev, splitv, pc>>

\* A break, or the loop condition failing: rebalance_assignments returns.
RebalanceReturn ==
    /\ pc = "rebalance"
    /\ ~CanMove
    /\ iterations' = IF iterations < rebalance_max_iterations
                     THEN iterations + 1 ELSE iterations
    /\ pc' = "done"
    /\ UNCHANGED <<inputs, total_products, targets, book, strictv, queuev, splitv,
                   moves_made>>

Next ==
    \/ Prepare
    \/ StrictAssign \/ StrictBacklog \/ StrictDone
    \/ PreAssignWhole \/ PreAssignOverflow
    \/ BrandSmallPlace \/ BrandSmallBacklog \/ BrandWholePlace
    \/ BrandSplitBacklog \/ BrandSplitStart
    \/ EvenNoEligible \/ EvenWholePlace \/ EvenSplitStart
    \/ SplitAssign \/ SplitFinish
    \/ BrandLoopExit \/ EvenLoopExit
    \/ RebalanceMove \/ RebalanceReturn

Spec == Init /\ [][Next]_vars

\* ------------------------------------------- calculate_targets on its own
\* Rosters of two and three members, every limit up to TMaxLimit, every item
\* count up to TMaxTotal.
InitTargets ==
    /\ mode = EvenPriority
    /\ active_members \in {<<"A", "B">>, <<"A", "B", "C">>}
    /\ member_limits \in [Range(active_members) -> 0..TMaxLimit]
    /\ brand_to_member = [b \in Brands |-> NoMember]
    /\ qa_rows = << >>
    /\ SPLIT_SIZE_THRESHOLD = MinSplitSize
    /\ IMBALANCE_RATIO = 130
    /\ TARGET_TOLERANCE = 10
    /\ REBALANCE_ENABLED = TRUE
    /\ InitEngine
    /\ pc = "targets"

CalcTargets ==
    /\ pc = "targets"
    /\ \E total \in 0..TMaxTotal :
           /\ total_products' = total
           /\ targets' = calculate_targets(active_members, member_limits, total)
    /\ pc' = "calculated"
    /\ UNCHANGED <<inputs, book, strictv, queuev, splitv, rebv>>

NextTargets == CalcTargets

SpecTargets == InitTargets /\ [][NextTargets]_vars

\* ---------------------------------------- rebalance_assignments on its own
\* The rows whose Assigned cell is who, in sheet order.
HeldBy(col, who) == SelectSeq(RowSeq(qa_rows), LAMBDA r : col[r] = who)

\* The arguments of the call at the end of Balanced (Even Priority): rosters of
\* two and three members, every row of the sheet held by a member or in
\* Backlog, no member above its limit (Even Priority caps every quota by the
\* remaining capacity), and the targets calculate_targets gave for the sheet.
InitRebalance ==
    /\ mode = EvenPriority
    /\ active_members \in {<<"A", "B">>, <<"A", "B", "C">>}
    /\ member_limits \in [Range(active_members) -> 0..RMaxLimit]
    /\ brand_to_member = [b \in Brands |-> NoMember]
    /\ qa_rows \in {Weave(n, 0, 0) : n \in 0..RMaxRows}
    /\ SPLIT_SIZE_THRESHOLD = MinSplitSize
    /\ IMBALANCE_RATIO = 130
    /\ TARGET_TOLERANCE = 10
    /\ REBALANCE_ENABLED = TRUE
    /\ assigned_col \in [RowNumbers(qa_rows) -> Range(active_members) \cup {Backlog}]
    /\ assignments = [m \in Range(active_members) |-> HeldBy(assigned_col, m)]
    /\ counts = [m \in Range(active_members) |-> Len(assignments[m])]
    /\ \A m \in Range(active_members) : counts[m] <= member_limits[m]
    /\ backlog_rows = HeldBy(assigned_col, Backlog)
    /\ total_products = Len(qa_rows)
    /\ targets = calculate_targets(active_members, member_limits, total_products)
    /\ assigned_blocks = << >>
    /\ blocks_queue = << >>
    /\ iteration = 0
    /\ all_rows = << >>
    /\ member_cycle = 1
    /\ quotas = [m \in Range(active_members) |-> 0]
    /\ member_queue = << >>
    /\ rows = << >>
    /\ iterations = 0
    /\ moves_made = 0
    /\ pc = "rebalance"

NextRebalance == RebalanceMove \/ RebalanceReturn

SpecRebalance == InitRebalance /\ [][NextRebalance]_vars

\* rebalance_assignments is a sequential loop: the interpreter keeps executing
\* it, so whenever its next step is possible the step is eventually taken.
FairSpecRebalance == SpecRebalance /\ WF_vars(NextRebalance)

\* ------------------------------- Balanced (Brand Priority) with three members
\* A roster of three, so that a block can be placed whole while another member
\* carries a load: limits up to WMaxLimit, the first brand pre-assigned or not.
InitBrand ==
    /\ mode = BrandPriority
    /\ active_members = <<"A", "B", "C">>
    /\ member_limits \in [Range(active_members) -> 0..WMaxLimit]
    /\ brand_to_member \in {[b \in Brands |-> IF b = BrandX THEN p ELSE NoMember] :
                               p \in Range(active_members) \cup {NoMember}}
    /\ qa_rows \in {Weave(p[1], p[2], 0) :
                       p \in {q \in (0..MaxBlock) \X (0..MaxBlock) : q[2] <= q[1]}}
    /\ SPLIT_SIZE_THRESHOLD = MinSplitSize
    /\ IMBALANCE_RATIO = 130
    /\ TARGET_TOLERANCE = 10
    /\ REBALANCE_ENABLED = TRUE
    /\ InitEngine
    /\ pc = "prepare"

NextBrand ==
    \/ Prepare
    \/ PreAssignWhole \/ PreAssignOverflow
    \/ BrandSmallPlace \/ BrandSmallBacklog \/ BrandWholePlace
    \/ BrandSplitBacklog \/ BrandSplitStart
    \/ SplitAssign \/ SplitFinish
    \/ BrandLoopExit

SpecBrand == InitBrand /\ [][NextBrand]_vars

\* ================================================================ claims
Assignees == Range(active_members) \cup {Backlog}
Abs(x) == IF x >= 0 THEN x ELSE -x
\* How often row r occurs in sequence q.
Occurrences(q, r) == Cardinality({i \in 1..Len(q) : q[i] = r})
\* The number of lists (the members' and the backlog) that hold row r.
TimesHeld(r) ==
    SumSeq([i \in 1..Len(active_members) |-> Occurrences(assignments[active_members[i]], r)])
    + Occurrences(backlog_rows, r)
Balanced == mode \in {BrandPriority, EvenPriority}
NoPreAssignments == \A b \in Brands : brand_to_member[b] = NoMember
PreActive(b) == brand_to_member[b] # NoMember /\ brand_to_member[b] \in Range(active_members)
SumLimits == SumOver(active_members, member_limits)
SumCounts == SumOver(active_members, counts)

\* C1 (Completeness): when the run has finished, every item (every row with a
\* Pim Parent ID, with or without a brand) has exactly one assignee, an active
\* member or "Backlog": its Assigned cell names it and exactly one list holds it.
C1_Completeness ==
    pc = "done" =>
        \A r \in RowNumbers(qa_rows) :
            assigned_col[r] \in Assignees /\ TimesHeld(r) = 1

\* C2 (Capacity invariant): in every state of a run, in every mode, each active
\* member's assigned count is between 0 and that member's limit.
C2_CapacityInvariant ==
    \A m \in Range(active_members) : 0 <= counts[m] /\ counts[m] <= member_limits[m]

\* C3 (Backlog correctness): with no pre-assignments, when the limits sum to
\* less than the number of items, the run ends with exactly (items - sum of
\* limits) rows in Backlog and every member filled exactly to its limit.
C3_BacklogCorrectness ==
    (pc = "done" /\ NoPreAssignments /\ SumLimits < Len(qa_rows)) =>
        /\ Len(backlog_rows) = Len(qa_rows) - SumLimits
        /\ \A m \in Range(active_members) : counts[m] = member_limits[m]

\* C4 (Pre-assignment overflow): in the Balanced modes the rows of a pre-assigned
\* brand that its member cannot take are placed by the general rules and the
\* blocks behind them are processed too: when the run has finished the queue is
\* empty and every row of every brand with an active pre-assigned member is
\* assigned to a member or to Backlog.
C4_OverflowIsPlaced ==
    (pc = "done" /\ Balanced) =>
        /\ blocks_queue = << >>
        /\ \A b \in Brands : PreActive(b) =>
               \A r \in Range(brand_blocks(qa_rows, b)) : assigned_col[r] \in Assignees

\* C5 (Pre-assignment honoured): in the Balanced modes, a brand whose whole block
\* was placed on its active pre-assigned member (the member had room for all of
\* it) has every row assigned to that member when the run has finished.
C5_PreAssignmentHonoured ==
    (pc = "done" /\ Balanced) =>
        \A i \in 1..Len(assigned_blocks) :
            LET e == assigned_blocks[i]
            IN (PreActive(e.brand) /\ e.rows = brand_blocks(qa_rows, e.brand)) =>
                   \A r \in Range(e.rows) : assigned_col[r] = brand_to_member[e.brand]

\* C6 (Capacity exhaustion): in the Balanced modes, a step that takes a block
\* from the queue while every active member has no remaining capacity assigns
\* all its rows to Backlog and leaves the rest of the queue to be processed.
C6_ExhaustionToBacklog ==
    [][(InQueueLoop /\ iteration' = iteration + 1
          /\ \A m \in Range(active_members) : Rem(m) = 0) =>
       (/\ \A r \in Range(current_rows) : assigned_col'[r] = Backlog
        /\ blocks_queue' = Tail(blocks_queue))]_vars

\* C7 (Iteration cap): when the block-queue loop of a Balanced mode has stopped
\* at its iteration cap, every row still in the queue is assigned to Backlog.
C7_CapRoutesToBacklog ==
    (Balanced /\ pc \in {"rebalance", "done"} /\ iteration >= max_iterations) =>
        \A i \in 1..Len(blocks_queue) :
            \A r \in Range(blocks_queue[i].rows) : assigned_col[r] = Backlog

\* C8 (Target sum): the targets calculate_targets returns sum to
\* min(total items, sum of limits).
C8_TargetSum ==
    pc = "calculated" =>
        SumOver(active_members, targets) = Min(total_products, SumLimits)

\* C9 as claimed (targets as equal as possible): the targets of any two members
\* that are not capped at their limit differ by at most 1.
C9_TargetsEven ==
    pc = "calculated" =>
        \A a, b \in Range(active_members) :
            (targets[a] < member_limits[a] /\ targets[b] < member_limits[b]) =>
                Abs(targets[a] - targets[b]) <= 1

\* C9 as amended (targets are proportional to the limits): when the items fit
\* the limits, each member's target lies between x - 1/2 and x + 3/2 for
\* x = total * limit / sum of limits (the rounded share, or one more from the
\* remainder loop); when they do not fit, each target is the member's limit; and
\* two members with the same limit get targets that differ by at most 1.
C9_TargetsProportional ==
    pc = "calculated" =>
        /\ \A a, b \in Range(active_members) :
               member_limits[a] = member_limits[b] => Abs(targets[a] - targets[b]) <= 1
        /\ total_products > SumLimits =>
               \A m \in Range(active_members) : targets[m] = member_limits[m]
        /\ total_products <= SumLimits =>
               \A m \in Range(active_members) :
                   /\ 2 * SumLimits * targets[m] >= 2 * total_products * member_limits[m] - SumLimits
                   /\ 2 * SumLimits * targets[m] <= 2 * total_products * member_limits[m] + 3 * SumLimits

\* C9's case: two members with the same limit whose targets differ by 1, beside
\* a member with another limit and a target below it.
C9_Witness ==
    /\ pc = "calculated"
    /\ total_products <= SumLimits
    /\ \E a, b, c \in Range(active_members) :
           /\ a # b /\ member_limits[a] = member_limits[b] /\ targets[a] = targets[b] + 1
           /\ member_limits[c] # member_limits[a] /\ targets[c] < member_limits[c]

\* A member at a limit that is below the even share of the assigned items.
CappedBelowShare(m) ==
    counts[m] = member_limits[m] /\ member_limits[m] * Len(active_members) < SumCounts

\* C10 as claimed (rebalancer convergence): in Balanced (Even Priority) with
\* post-rebalancing, after rebalance_assignments has returned, any two members'
\* counts differ by at most 1 unless one of them is at a limit below the even share.
C10_EvenConvergence ==
    (pc = "done" /\ mode = EvenPriority /\ REBALANCE_ENABLED) =>
        \A a, b \in Range(active_members) :
            Abs(counts[a] - counts[b]) <= 1 \/ CappedBelowShare(a) \/ CappedBelowShare(b)

Over == {m \in Range(active_members) : counts[m] > targets[m]}
Under == {m \in Range(active_members) : counts[m] < targets[m]}

\* C10 as amended (the rebalancer stops when no move improves): after
\* rebalance_assignments has returned short of its iteration cap, no member is
\* above its target, or none is below its target, or a member furthest above
\* its target holds at most 1 row more than a member furthest below its target.
C10_NoImprovingMove ==
    (pc = "done" /\ mode = EvenPriority /\ REBALANCE_ENABLED
        /\ moves_made < rebalance_max_iterations) =>
        \/ Over = {}
        \/ Under = {}
        \/ \E f \in Over, u \in Under :
               /\ \A m \in Over : counts[m] - targets[m] <= counts[f] - targets[f]
               /\ \A m \in Under : targets[m] - counts[m] <= targets[u] - counts[u]
               /\ counts[f] - counts[u] <= 1

\* C10's case: the rebalancer has moved rows and stopped with a member still
\* above its target and a member still below its target.
C10_Witness ==
    /\ pc = "done" /\ mode = EvenPriority /\ REBALANCE_ENABLED
    /\ moves_made >= 1
    /\ Over # {} /\ Under # {}

\* A block is taken from the queue that is larger than every member's remaining
\* capacity but not larger than their sum, in a run without pre-assignments.
SumRem == SumSeq([i \in 1..Len(active_members) |-> Rem(active_members[i])])
OversizedFitting ==
    /\ InQueueLoop /\ NoPreAssignments
    /\ \A m \in Range(active_members) : Rem(m) < block_size
    /\ block_size <= SumRem

\* C11 (a block that fits the combined capacity is split without backlog): in
\* each Balanced mode, the step that takes such a block from the queue starts a
\* split whose quotas add up to the whole block (one row is handed out per unit
\* of quota), and sends none of its rows to Backlog.
C11_SplitWithoutBacklog ==
    [][(OversizedFitting /\ iteration' = iteration + 1) =>
       (/\ pc' = "split"
        /\ SumSeq([i \in 1..Len(active_members) |-> quotas'[active_members[i]]]) = block_size
        /\ backlog_rows' = backlog_rows)]_vars

\* C11, for the blocks the code does split: in Balanced (Even Priority), and in
\* Balanced (Brand Priority) for a block of at least SPLIT_SIZE_THRESHOLD rows,
\* the step that takes such a block starts a split whose quotas add up to the
\* whole block, each quota within the member's remaining capacity, and sends no
\* row to Backlog.  (Brand Priority sends a smaller block whole to Backlog.)
C11_SplitFitting ==
    [][(/\ OversizedFitting /\ iteration' = iteration + 1
        /\ (mode = EvenPriority \/ block_size >= SPLIT_SIZE_THRESHOLD)) =>
       (/\ pc' = "split"
        /\ SumSeq([i \in 1..Len(active_members) |-> quotas'[active_members[i]]]) = block_size
        /\ \A m \in Range(active_members) : quotas'[m] <= Rem(m)
        /\ backlog_rows' = backlog_rows)]_vars

\* C11's case: a split has just started on a block larger than every member's
\* remaining capacity and no larger than their sum, over two members.
C11_Witness ==
    /\ pc = "split" /\ NoPreAssignments
    /\ rows # << >>
    /\ Len(rows) = SumSeq([i \in 1..Len(active_members) |-> quotas[active_members[i]]])
    /\ \A m \in Range(active_members) : Rem(m) < Len(rows)
    /\ Len(rows) <= SumRem
    /\ Len(member_queue) >= 2

HeldRows == SumSeq([i \in 1..Len(active_members) |-> Len(assignments[active_members[i]])])
HeldRowsNext == SumSeq([i \in 1..Len(active_members) |-> Len(assignments'[active_members[i]])])
\* Row r leaves member f's list and is appended to member t's list; nothing else changes.
MovesRow(f, t, r) ==
    /\ r \in Range(assignments[f])
    /\ Len(assignments'[f]) = Len(assignments[f]) - 1
    /\ \A x \in DOMAIN assigned_col :
           Occurrences(assignments'[f], x)
               = Occurrences(assignments[f], x) - (IF x = r THEN 1 ELSE 0)
    /\ assignments'[t] = Append(assignments[t], r)
    /\ \A m \in Range(active_members) \ {f, t} : assignments'[m] = assignments[m]
    /\ assigned_col[r] = f
    /\ assigned_col' = [assigned_col EXCEPT ![r] = t]
    /\ counts' = [counts EXCEPT ![f] = @ - 1, ![t] = @ + 1]

\* C12 (the rebalancer only moves member-held rows): every step of
\* rebalance_assignments leaves the Backlog rows as they are (no Backlog row
\* goes to a member, no member's row to Backlog), keeps the number of rows held
\* by members, and either changes no list or takes exactly one row out of one
\* member's list and appends that same row to another member's list.
C12_RebalancerOnlyMoves ==
    [][pc = "rebalance" =>
       (/\ backlog_rows' = backlog_rows
        /\ \A r \in DOMAIN assigned_col :
               /\ (assigned_col[r] = Backlog) <=> (assigned_col'[r] = Backlog)
               /\ (assigned_col[r] \in Range(active_members))
                      <=> (assigned_col'[r] \in Range(active_members))
        /\ HeldRowsNext = HeldRows
        /\ SumOver(active_members, counts') = SumCounts
        /\ \/ (assignments' = assignments /\ assigned_col' = assigned_col /\ counts' = counts)
           \/ \E f, t \in Range(active_members) :
                  f # t /\ \E r \in DOMAIN assigned_col : MovesRow(f, t, r))]_vars

\* C12's case: the rebalancer has moved rows in a run that has rows in Backlog.
C12_Witness ==
    /\ pc = "done"
    /\ moves_made >= 1
    /\ backlog_rows # << >>

\* C13 (the rebalancer never causes a capacity violation): started with every
\* member's count within its limit and the targets of calculate_targets, after
\* every move of rebalance_assignments every count is still within its limit.
C13_RebalancerKeepsCapacity ==
    pc \in {"rebalance", "done"} =>
        \A m \in Range(active_members) : counts[m] <= member_limits[m]

\* C13's case: the rebalancer has moved a row onto a member that is now exactly
\* at its limit (the moved row sits behind a later row of the sheet).
C13_Witness ==
    /\ pc = "done" /\ moves_made >= 1
    /\ \E m \in Range(active_members) :
           /\ counts[m] = member_limits[m]
           /\ \E i, j \in 1..Len(assignments[m]) :
                  i < j /\ assignments[m][i] > assignments[m][j]

\* C14 (every target is within capacity): each target calculate_targets returns
\* is at least 0 and at most the member's limit.
C14_TargetWithinLimit ==
    pc = "calculated" =>
        \A m \in Range(active_members) : 0 <= targets[m] /\ targets[m] <= member_limits[m]

\* C14's case: more items than the limits hold, so the proportional share of a
\* member with a positive limit is above the limit and its target is the limit.
C14_Witness ==
    /\ pc = "calculated"
    /\ total_products > SumLimits
    /\ \E m \in Range(active_members) :
           /\ member_limits[m] > 0
           /\ RoundHalfEven(total_products * member_limits[m], SumLimits) > member_limits[m]
           /\ targets[m] = member_limits[m]

\* Position of member m in the roster.
Idx(m) == CHOOSE i \in 1..Len(active_members) : active_members[i] = m
\* m comes no later in the roster than every member of tied.
RosterFirst(m, tied) == m \in tied /\ \A c \in tied : Idx(m) <= Idx(c)
\* The member of the whole placement this step records.
PlacedMember == assigned_blocks'[Len(assigned_blocks')].member
PlacesWhole == InQueueLoop /\ ~HasActivePre /\ Len(assigned_blocks') = Len(assigned_blocks) + 1
\* The branch of the code each action is, as a condition on the state.
AtPrepare ==
    pc = "prepare"
AtStrictAssign ==
    pc = "strict" /\ all_rows # << >> /\ CycleHits # {}
AtStrictBacklog ==
    pc = "strict" /\ all_rows # << >> /\ CycleHits = {}
AtStrictDone ==
    pc = "strict" /\ all_rows = << >>
AtPreAssignWhole ==
    InQueueLoop /\ HasActivePre /\ Rem(pre_member) >= block_size
AtPreAssignOverflow ==
    InQueueLoop /\ HasActivePre /\ Rem(pre_member) < block_size
AtBrandSmallPlace ==
    InQueueLoop /\ pc = "brand" /\ ~HasActivePre
        /\ block_size < SPLIT_SIZE_THRESHOLD /\ candidates_can_take # << >>
AtBrandSmallBacklog ==
    InQueueLoop /\ pc = "brand" /\ ~HasActivePre
        /\ block_size < SPLIT_SIZE_THRESHOLD /\ candidates_can_take = << >>
AtBrandWholePlace ==
    InQueueLoop /\ pc = "brand" /\ ~HasActivePre
        /\ block_size >= SPLIT_SIZE_THRESHOLD /\ HasBestCandidate /\ ~would_imbalance
AtBrandSplitBacklog ==
    NeedsBrandSplit /\ eligible = << >>
AtBrandSplitStart ==
    NeedsBrandSplit /\ eligible # << >>
AtEvenNoEligible ==
    InQueueLoop /\ pc = "even" /\ ~HasActivePre /\ eligible = << >>
AtEvenWholePlace ==
    InQueueLoop /\ pc = "even" /\ ~HasActivePre /\ eligible # << >> /\ FitsWhole
AtEvenSplitStart ==
    InQueueLoop /\ pc = "even" /\ ~HasActivePre /\ eligible # << >> /\ ~FitsWhole
AtSplitAssign ==
    pc = "split" /\ member_queue # << >> /\ rows # << >>
AtSplitFinish ==
    pc = "split" /\ (member_queue = << >> \/ rows = << >>)
AtBrandLoopExit ==
    pc = "brand" /\ ~InQueueLoop
AtEvenLoopExit ==
    pc = "even" /\ ~InQueueLoop
AtRebalanceMove ==
    pc = "rebalance" /\ CanMove
AtRebalanceReturn ==
    pc = "rebalance" /\ ~CanMove
Open(branch) == IF branch THEN 1 ELSE 0
OpenBranches ==
    Open(AtPrepare) + Open(AtStrictAssign) + Open(AtStrictBacklog)
    + Open(AtStrictDone) + Open(AtPreAssignWhole) + Open(AtPreAssignOverflow)
    + Open(AtBrandSmallPlace) + Open(AtBrandSmallBacklog) + Open(AtBrandWholePlace)
    + Open(AtBrandSplitBacklog) + Open(AtBrandSplitStart) + Open(AtEvenNoEligible)
    + Open(AtEvenWholePlace) + Open(AtEvenSplitStart) + Open(AtSplitAssign)
    + Open(AtSplitFinish) + Open(AtBrandLoopExit) + Open(AtEvenLoopExit)
    + Open(AtRebalanceMove) + Open(AtRebalanceReturn)
\* Exactly one branch is open in a state a step starts from, and the step taken
\* is the action of that branch.  Every action sets each variable to a value
\* computed from the state (none draws a value), so the step is determined.
OneBranch ==
    /\ OpenBranches = 1
    /\ AtPrepare => Prepare
    /\ AtStrictAssign => StrictAssign
    /\ AtStrictBacklog => StrictBacklog
    /\ AtStrictDone => StrictDone
    /\ AtPreAssignWhole => PreAssignWhole
    /\ AtPreAssignOverflow => PreAssignOverflow
    /\ AtBrandSmallPlace => BrandSmallPlace
    /\ AtBrandSmallBacklog => BrandSmallBacklog
    /\ AtBrandWholePlace => BrandWholePlace
    /\ AtBrandSplitBacklog => BrandSplitBacklog
    /\ AtBrandSplitStart => BrandSplitStart
    /\ AtEvenNoEligible => EvenNoEligible
    /\ AtEvenWholePlace => EvenWholePlace
    /\ AtEvenSplitStart => EvenSplitStart
    /\ AtSplitAssign => SplitAssign
    /\ AtSplitFinish => SplitFinish
    /\ AtBrandLoopExit => BrandLoopExit
    /\ AtEvenLoopExit => EvenLoopExit
    /\ AtRebalanceMove => RebalanceMove
    /\ AtRebalanceReturn => RebalanceReturn

\* Brand Priority, whole placement: below the threshold the tie is in
\* (remaining capacity, count); at or above it every candidate is tied.
TieBrandWhole ==
    (PlacesWhole /\ pc = "brand") =>
        RosterFirst(PlacedMember,
                    {c \in Range(candidates_can_take) :
                         block_size < SPLIT_SIZE_THRESHOLD =>
                             (Rem(c) = Rem(PlacedMember) /\ counts[c] = counts[PlacedMember])})
\* Even Priority, whole placement: the tie is in the distance from target.
TieEvenWhole ==
    (PlacesWhole /\ pc = "even") =>
        RosterFirst(PlacedMember, {c \in Range(eligible) : Dist(c) = Dist(PlacedMember)})
\* A split: of two members with the same remaining capacity and the same
\* distance from target, the earlier in the roster gets at least as many rows.
TieSplit ==
    (InQueueLoop /\ pc' = "split") =>
        \A a, b \in Range(active_members) :
            (Idx(a) < Idx(b) /\ Rem(a) = Rem(b) /\ Dist(a) = Dist(b)) =>
                quotas'[a] >= quotas'[b]
\* Strict Even Split: the row goes to the first member with remaining capacity
\* in roster order, starting behind the member served last.
TieStrict ==
    (pc = "strict" /\ all_rows # << >> /\ assigned_col'[Head(all_rows)] # Backlog) =>
        \E k \in 0..(Len(active_members) - 1) :
            /\ assigned_col'[Head(all_rows)] = CycleMember(k)
            /\ \A j \in 0..(k - 1) : Rem(CycleMember(j)) = 0
\* A rebalancing move: giver and receiver are the first in the roster among the
\* members as far above, and as far below, their targets.
TieRebalance ==
    (pc = "rebalance" /\ moves_made' = moves_made + 1) =>
        \E f, t \in Range(active_members) :
            /\ counts'[f] = counts[f] - 1 /\ counts'[t] = counts[t] + 1
            /\ RosterFirst(f, {c \in Range(over_target) :
                                   counts[c] - targets[c] = counts[f] - targets[f]})
            /\ RosterFirst(t, {c \in Range(under_target) :
                                   targets[c] - counts[c] = targets[t] - counts[t]})

\* C15 (determinism): every step of a run is determined by the state it starts
\* from, so the map is a function of the inputs, and every tie between members
\* is broken by their order in the roster.
C15_Determinism ==
    [][/\ OneBranch
       /\ TieBrandWhole /\ TieEvenWhole /\ TieSplit /\ TieStrict /\ TieRebalance]_vars

\* C15's case: the first block was placed whole on A while B, with the same
\* limit and no rows, was as good a choice.
C15_Witness ==
    /\ pc = "done" /\ Balanced /\ NoPreAssignments
    /\ Len(assigned_blocks) >= 1
    /\ assigned_blocks[1].member = "A"
    /\ assigned_blocks[1].rows = BuildBlocks(qa_rows)[1].rows
    /\ member_limits["A"] = member_limits["B"]

\* C16 (whole-block placement picks the roomiest member): in Balanced (Brand
\* Priority), a block without an active pre-assigned member that is placed
\* whole goes to a member with the largest remaining capacity among those that
\* can take it, and with the fewest rows among those with that capacity.
C16_WholePicksRoomiest ==
    [][(PlacesWhole /\ pc = "brand") =>
       (/\ PlacedMember \in Range(candidates_can_take)
        /\ \A c \in Range(candidates_can_take) :
               \/ Rem(c) < Rem(PlacedMember)
               \/ (Rem(c) = Rem(PlacedMember) /\ counts[c] >= counts[PlacedMember]))]_vars

\* The loads with the block of this step added to member m.
LoadsWith(m) == [c \in Range(active_members) |-> IF c = m THEN counts[c] + block_size ELSE counts[c]]
\* Member m holds the highest of the loads l, the highest load among the other
\* members is positive, and the highest is within IMBALANCE_RATIO times it.
LoadsBalanced(l) ==
    \E hi \in Range(active_members) :
        /\ \A c \in Range(active_members) : l[c] <= l[hi]
        /\ \E lo \in Range(active_members) \ {hi} :
               /\ \A c \in Range(active_members) \ {hi} : l[c] <= l[lo]
               /\ l[lo] > 0
               /\ l[hi] * 100 <= IMBALANCE_RATIO * l[lo]

\* C17 as claimed (imbalance check before whole placement): in Balanced (Brand
\* Priority), no block without an active pre-assigned member is placed whole on
\* a member when that makes the highest load exceed IMBALANCE_RATIO times the
\* second-highest, or makes the member the only one with a load.
C17_ImbalanceChecked ==
    [][(PlacesWhole /\ pc = "brand") => LoadsBalanced(LoadsWith(PlacedMember))]_vars

\* C17 for the blocks the check is made for: a block of at least
\* SPLIT_SIZE_THRESHOLD rows is placed whole only when the loads stay balanced,
\* and is split (or, with no capacity left anywhere, sent to Backlog) otherwise.
\* Smaller blocks are placed whole without the check.
C17_ImbalanceCheckedAtThreshold ==
    [][(/\ InQueueLoop /\ pc = "brand" /\ ~HasActivePre
        /\ block_size >= SPLIT_SIZE_THRESHOLD /\ iteration' = iteration + 1) =>
       IF Len(assigned_blocks') = Len(assigned_blocks) + 1
       THEN LoadsBalanced(LoadsWith(PlacedMember))
       ELSE \/ pc' = "split"
            \/ \A r \in Range(current_rows) : assigned_col'[r] = Backlog]_vars

\* C17's case: a block of at least SPLIT_SIZE_THRESHOLD rows, of a brand without
\* an active pre-assigned member, has been placed whole.
C17_Witness ==
    /\ mode = BrandPriority
    /\ \E i \in 1..Len(assigned_blocks) :
           /\ Len(assigned_blocks[i].rows) >= SPLIT_SIZE_THRESHOLD
           /\ ~PreActive(assigned_blocks[i].brand)

\* The rows of brand b in the list asg holds for member c.  A brand that is
\* split has no active pre-assigned member, so these are the rows of the block
\* being split that c has been given.
GivenOf(asg, c, b) == Cardinality({k \in 1..Len(asg[c]) : qa_rows[asg[c][k] - 1] = b})
SplitBrand == qa_rows[Head(rows) - 1]

\* C18 (split placement is interleaved round-robin): in both Balanced modes,
\* every turn of a split hands the next row of the block to the member at the
\* head of the cycle of members with quota left, spends one unit of its quota
\* and sends it to the back of the cycle while it has quota left; after the
\* turn no quota is overspent, and any two members that both still have quota
\* have been given numbers of rows of the block that differ by at most 1.
C18_InterleavedSplit ==
    [][(pc = "split" /\ pc' = "split") =>
       (/\ rows # << >> /\ member_queue # << >>
        /\ assigned_col' = [assigned_col EXCEPT ![Head(rows)] = Head(member_queue)]
        /\ rows' = Tail(rows)
        /\ quotas' = [quotas EXCEPT ![Head(member_queue)] = @ - 1]
        /\ \A c \in Range(active_members) : quotas'[c] >= 0
        /\ Range(member_queue') = {c \in Range(active_members) : quotas'[c] > 0}
        /\ (quotas'[Head(member_queue)] > 0) =>
               member_queue'[Len(member_queue')] = Head(member_queue)
        /\ \A k \in 2..Len(member_queue) : member_queue'[k - 1] = member_queue[k]
        /\ \A a, b \in Range(active_members) :
               (quotas'[a] > 0 /\ quotas'[b] > 0) =>
                   Abs(GivenOf(assignments', a, SplitBrand)
                           - GivenOf(assignments', b, SplitBrand)) <= 1)]_vars

\* C18's case: in the middle of a split two members still have quota, and one
\* of them has been given one row of the block more than the other.
C18_Witness ==
    /\ pc = "split" /\ rows # << >>
    /\ \E a, b \in Range(active_members) :
           /\ quotas[a] > 0 /\ quotas[b] > 0
           /\ GivenOf(assignments, b, SplitBrand) >= 1
           /\ GivenOf(assignments, a, SplitBrand) = GivenOf(assignments, b, SplitBrand) + 1

\* The receivers of the rows of a sheet whose rows all carry one brand, in
\* sheet order: each row goes to the next member in roster order, from position
\* pos on, that has remaining capacity, or to Backlog when none has.
RECURSIVE RoundRobinReceivers(_, _, _)
RoundRobinReceivers(n, cnts, pos) ==
    IF n = 0 THEN << >>
    ELSE LET members == Len(active_members)
             at(k) == active_members[((pos - 1 + k) % members) + 1]
             hits == {k \in 0..(members - 1) : cnts[at(k)] < member_limits[at(k)]}
         IN IF hits = {}
            THEN <<Backlog>> \o RoundRobinReceivers(n - 1, cnts, pos)
            ELSE LET k == CHOOSE h \in hits : \A j \in hits : h <= j
                 IN <<at(k)>> \o RoundRobinReceivers(n - 1, [cnts EXCEPT ![at(k)] = @ + 1],
                                                      ((pos - 1 + k + 1) % members) + 1)

\* The counts part of C19: no member holds 2 rows more than a member that is
\* below its limit.
StrictCountsEven ==
    \A a, b \in Range(active_members) :
        counts[a] - counts[b] <= 1 \/ counts[b] = member_limits[b]

\* C19 (Strict Even Split is a capacity-aware round-robin): when a Strict Even
\* Split run has finished, no member holds 2 rows more than a member below its
\* limit, and every row has the receiver it has when brands play no part (the
\* receiver the same sheet gives it with one brand in every Brand cell).
C19_StrictRoundRobin ==
    (pc = "done" /\ mode = Strict) =>
        /\ StrictCountsEven
        /\ \A k \in 1..Len(qa_rows) :
               assigned_col[k + 1]
                   = RoundRobinReceivers(Len(qa_rows), [m \in Range(active_members) |-> 0], 1)[k]

\* A brand of the sheet with fewer rows than SPLIT_SIZE_THRESHOLD.
SmallBrand(b) ==
    brand_blocks(qa_rows, b) # << >> /\ Len(brand_blocks(qa_rows, b)) < SPLIT_SIZE_THRESHOLD
\* Every row of rs has who in its Assigned cell.
AllCells(rs, who) == \A k \in 1..Len(rs) : assigned_col[rs[k]] = who

Imbalance ==
    SumSeq([i \in 1..Len(active_members) |->
               Abs(counts[active_members[i]] - targets[active_members[i]])])
ImbalanceNext ==
    SumSeq([i \in 1..Len(active_members) |->
               Abs(counts'[active_members[i]] - targets[active_members[i]])])
\* Sum over the members of max(0, count - target), before and after a step.
Surplus ==
    SumSeq([i \in 1..Len(active_members) |->
               Max(0, counts[active_members[i]] - targets[active_members[i]])])
SurplusNext ==
    SumSeq([i \in 1..Len(active_members) |->
               Max(0, counts'[active_members[i]] - targets[active_members[i]])])

\* One step of rebalance_assignments: it returns without touching the counts,
\* or it makes exactly one move, from a member strictly above its target to a
\* member strictly below its target, that lowers the imbalance by exactly 2 and
\* takes no member across its target.
ImprovingStep ==
    \/ /\ moves_made' = moves_made
       /\ counts' = counts /\ assignments' = assignments
       /\ pc' = "done"
    \/ /\ moves_made' = moves_made + 1
       /\ pc' = "rebalance"
       /\ \E f, t \in Range(active_members) :
              /\ f # t
              /\ counts[f] > targets[f]
              /\ counts[t] < targets[t]
              /\ counts' = [counts EXCEPT ![f] = @ - 1, ![t] = @ + 1]
       /\ ImbalanceNext = Imbalance - 2
       /\ \A m \in Range(active_members) :
              /\ counts[m] > targets[m] => counts'[m] >= targets[m]
              /\ counts[m] < targets[m] => counts'[m] <= targets[m]

\* C21 (the rebalancer terminates and every move improves): every step of
\* rebalance_assignments is a return or a move from a member strictly over its
\* target to a member strictly under it, which lowers the sum of |count - target|
\* by exactly 2 and flips no member across its target; the moves made so far plus
\* the surplus still above target stay equal to the surplus at entry, and the
\* moves never exceed the iterations, which never exceed max_iterations, so the
\* moves are at most min(max_iterations, surplus at entry); and the call
\* always returns.
C21_TerminatesImproving ==
    /\ [][pc = "rebalance" =>
             /\ ImprovingStep
             /\ moves_made' + SurplusNext = moves_made + Surplus
             /\ moves_made' <= iterations'
             /\ iterations' <= rebalance_max_iterations]_vars
    /\ (pc = "rebalance") ~> (pc = "done")

\* C21's case: the call has returned after two moves or more, the last of which
\* left no member above its target.
C21_Witness ==
    /\ pc = "done"
    /\ moves_made >= 2
    /\ Surplus = 0

\* The modes of C22: Strict Even Split, and Balanced (Even Priority) without
\* pre-assignments.
ExhaustionModes == mode = Strict \/ (mode = EvenPriority /\ NoPreAssignments)
AllFull == \A m \in Range(active_members) : Rem(m) = 0

\* C22 (Backlog only when capacity is exhausted): in Strict Even Split and in
\* Balanced (Even Priority) without pre-assignments, every step that sends rows
\* to Backlog is taken in a state where every active member's remaining capacity
\* is 0; and when the items are no more than the sum of the limits, the run
\* ends with an empty Backlog.
C22_BacklogOnlyWhenFull ==
    /\ [][(ExhaustionModes /\ backlog_rows' # backlog_rows) =>
             (AllFull /\ counts' = counts)]_vars
    /\ []((pc = "done" /\ ExhaustionModes /\ Len(qa_rows) <= SumLimits)
             => backlog_rows = << >>)

\* C22's case: a Balanced (Even Priority) run without pre-assignments that gave
\* rows to both members, filled both to their limits and sent the rest of a
\* split block to Backlog.
C22_Witness ==
    /\ pc = "done" /\ mode = EvenPriority /\ NoPreAssignments
    /\ backlog_rows # << >>
    /\ AllFull
    /\ \A m \in Range(active_members) : counts[m] >= 1
    /\ \E b \in Brands, m \in Range(active_members) :
           /\ assigned_col[brand_blocks(qa_rows, b)[1]] = m
           /\ assigned_col[brand_blocks(qa_rows, b)[Len(brand_blocks(qa_rows, b))]] = Backlog

\* C23 (bookkeeping consistency): in every mode, after every placement step and
\* every rebalancing move, each member's counter equals the length of its
\* assignments list, every row in a member's list carries that member in its
\* Assigned cell, every row in backlog_rows carries "Backlog", and no row is
\* held twice, in one list or across the members' lists and the backlog list.
C23_BookkeepingConsistent ==
    /\ \A m \in Range(active_members) :
           /\ counts[m] = Len(assignments[m])
           /\ \A k \in 1..Len(assignments[m]) : assigned_col[assignments[m][k]] = m
    /\ \A k \in 1..Len(backlog_rows) : assigned_col[backlog_rows[k]] = Backlog
    /\ \A r \in DOMAIN assigned_col : TimesHeld(r) <= 1

\* C23's case: a Balanced (Even Priority) run that placed the rows of two brands,
\* in which the rebalancer has just moved a row and every member holds two rows
\* or more.
C23_Witness ==
    /\ pc = "rebalance"
    /\ moves_made >= 1
    /\ Len(assigned_blocks) >= 2
    /\ \A m \in Range(active_members) : Len(assignments[m]) >= 2

=============================================================================
